---------------------------- MODULE Spec2Model ----------------------------
(***************************************************************************)
(* A model of fancy_hello.py: the memoized Fibonacci decoder, the          *)
(* hash-linked character ledger (CharChain), the Church-numeral and ASCII  *)
(* pipelines, and HelloWorldOrchestrator.perform() followed by the final   *)
(* assertion of the __main__ block.                                        *)
(*                                                                         *)
(* A character is its Unicode code point; a Python str is the sequence of  *)
(* the code points of its characters.  Python ints are unbounded: the      *)
(* Fibonacci values are kept as little-endian sequences of limbs.          *)
(* The recursion of fibonacci() is run frame by frame on an explicit call  *)
(* stack, one step of the top frame per FibStep.                           *)
(***************************************************************************)
EXTENDS Integers, Sequences, FiniteSets, TLC

VARIABLES
    seed,        \* the per-process salt of the built-in str hash (PYTHONHASHSEED)
    cache,       \* lru_cache of fibonacci: <<[key, val]>>, least recently used first
    stack,       \* call stack of fibonacci: <<[n, st, a]>>, innermost frame last
    retv,        \* the most recent return of fibonacci: [n, val]; n = -1 before any
    ncalls,      \* number of top-level fibonacci() calls the caller has made
    encoded,     \* fibonacci_decode: the list of (fib_index, offset) pairs
    genPos,      \* fibonacci_decode: number of pairs for which a character was yielded
    genOut,      \* fibonacci_decode: the characters yielded so far, in order
    genState,    \* fibonacci_decode: "idle" | "running" | "computing" | "raised" | "exhausted"
    chain,       \* CharChain._chain: <<[index, data, prev_hash, hash]>>
    mined,       \* the characters passed to mine(), in call order
    tamperedAt,  \* 0, or the list position (1-based) whose data was overwritten
    out,         \* outcome of the last verify_and_extract: [status, str]
    verifyBegun, \* verify_and_extract has been called on the chain
    pc,          \* position of the orchestrator inside perform() / __main__
    calls,       \* number of perform() calls started on the orchestrator
    wpos,        \* _render_world: number of WORLD_CHARS mined in this call
    segs,        \* perform(): result_chars, the fragments rendered so far
    message,     \* perform(): the joined message
    rendered,    \* the messages printed in the reveal box, in order
    results,     \* the values perform() has returned, in order
    exit         \* __main__: "running" | "ok" | "abnormal"

fibVars == <<cache, stack, retv>>
genVars == <<encoded, genPos, genOut, genState>>
chainVars == <<chain, mined, tamperedAt, out, verifyBegun>>
orchVars == <<pc, calls, wpos, segs, message, rendered, results, exit>>
vars == <<seed, fibVars, ncalls, genVars, chainVars, orchVars>>

(***************************************************************************)
(* Unbounded non-negative integers: little-endian limbs in base 10^9.      *)
(***************************************************************************)
Base == 10^9

ToBig(n) == <<n>>

Limb(a, i) == IF i <= Len(a) THEN a[i] ELSE 0

RECURSIVE AddFrom(_, _, _, _)
AddFrom(a, b, i, carry) ==
    IF i > Len(a) /\ i > Len(b)
    THEN (IF carry = 0 THEN <<>> ELSE <<carry>>)
    ELSE LET s == Limb(a, i) + Limb(b, i) + carry
         IN  <<s % Base>> \o AddFrom(a, b, i + 1, s \div Base)

BigAdd(a, b) == AddFrom(a, b, 1, 0)

(***************************************************************************)
(* chr(): one character for a code point in range(0x110000), ValueError    *)
(* (OverflowError beyond a C int) otherwise.                               *)
(***************************************************************************)
MaxCodePoint == 17 * 2^16 - 1

ChrOk(n) == n >= 0 /\ n <= MaxCodePoint

Chr(n) == <<n>>

\* "".join(parts)
RECURSIVE Join(_)
Join(parts) == IF parts = <<>> THEN <<>> ELSE Head(parts) \o Join(Tail(parts))

(***************************************************************************)
(* fibonacci, wrapped by functools.lru_cache(maxsize=256).                 *)
(***************************************************************************)
maxsize == 256

NoVal == <<>>

CacheHas(c, n) == \E i \in 1..Len(c) : c[i].key = n

CacheIdx(c, n) == CHOOSE i \in 1..Len(c) : c[i].key = n

CacheGet(c, n) == c[CacheIdx(c, n)].val

\* a hit moves the entry to the most-recently-used end
CacheTouch(c, n) ==
    LET i == CacheIdx(c, n)
    IN  SubSeq(c, 1, i - 1) \o SubSeq(c, i + 1, Len(c)) \o <<c[i]>>

\* after a miss: keep an entry a nested call stored meanwhile; evict the
\* least recently used entry when the cache is full
CacheStoreEvictNewest(c, n, v) ==
    IF CacheHas(c, n) THEN c
    ELSE IF Len(c) >= maxsize
         THEN Append(SubSeq(c, 1, Len(c) - 1), [key |-> n, val |-> c[Len(c)].val])
    ELSE Append(c, [key |-> n, val |-> v])

CacheStore(c, n, v) ==
    IF CacheHas(c, n) THEN c
    ELSE IF Len(c) >= maxsize THEN Append(Tail(c), [key |-> n, val |-> v])
    ELSE Append(c, [key |-> n, val |-> v])

Frame(n, st, a) == [n |-> n, st |-> st, a |-> a]

Top == stack[Len(stack)]

Pop == SubSeq(stack, 1, Len(stack) - 1)

\* "if n < 2: return n"
BaseCaseOffByOne(n) == ToBig(1)

BaseCase(n) == ToBig(n)

\* the wrapper finds the key: the cached value is returned
FibHit ==
    /\ cache' = CacheTouch(cache, Top.n)
    /\ retv' = [n |-> Top.n, val |-> CacheGet(cache, Top.n)]
    /\ stack' = Pop

\* a miss with n < 2: the body returns n, the wrapper stores and returns it
FibBase ==
    /\ cache' = CacheStore(cache, Top.n, BaseCase(Top.n))
    /\ retv' = [n |-> Top.n, val |-> BaseCase(Top.n)]
    /\ stack' = Pop

\* a miss with n >= 2: the body calls fibonacci(n - 1)
FibFirst ==
    /\ stack' = Append(Append(Pop, Frame(Top.n, "first", NoVal)),
                       Frame(Top.n - 1, "call", NoVal))
    /\ UNCHANGED <<cache, retv>>

\* fibonacci(n - 1) has returned: the body calls fibonacci(n - 2)
FibSecond ==
    /\ stack' = Append(Append(Pop, Frame(Top.n, "second", retv.val)),
                       Frame(Top.n - 2, "call", NoVal))
    /\ UNCHANGED <<cache, retv>>

\* fibonacci(n - 2) has returned: the body returns the sum, the wrapper stores it
FibSum ==
    LET v == BigAdd(Top.a, retv.val)
    IN  /\ cache' = CacheStore(cache, Top.n, v)
        /\ retv' = [n |-> Top.n, val |-> v]
        /\ stack' = Pop

\* one step of the innermost fibonacci frame
FibStep ==
    /\ stack # <<>>
    /\ IF Top.st = "call"
       THEN IF CacheHas(cache, Top.n) THEN FibHit
            ELSE IF Top.n < 2 THEN FibBase
            ELSE FibFirst
       ELSE IF Top.st = "first" THEN FibSecond
       ELSE FibSum
    /\ UNCHANGED <<seed, ncalls, genVars, chainVars, orchVars>>

\* the caller invokes fibonacci(n)
Enter(n) == <<Frame(n, "call", NoVal)>>

(***************************************************************************)
(* The mathematical Fibonacci numbers, computed iteratively without a      *)
(* cache: F(0)=0, F(1)=1, F(n)=F(n-1)+F(n-2).                              *)
(***************************************************************************)
\* acc extended by its next k entries, each the sum of the two before it
RECURSIVE FibExtend(_, _)
FibExtend(acc, k) ==
    IF k = 0 THEN acc
    ELSE LET s == Append(acc, BigAdd(acc[Len(acc) - 1], acc[Len(acc)]))
         IN  IF Len(s) > 0 THEN FibExtend(s, k - 1) ELSE <<>>

RECURSIVE FibSeq(_, _)
FibSeq(acc, k) ==
    IF Len(acc) > k THEN acc
    ELSE LET s == FibExtend(acc, 16)
         IN  IF Len(s) > 0 THEN FibSeq(s, k) ELSE <<>>

\* FibTable[n + 1] = F(n) for n up to maxsize + 2 at least
FibTable == FibSeq(<<ToBig(0), ToBig(1)>>, maxsize + 2)

F(n) == FibTable[n + 1]

(***************************************************************************)
(* Harness: top-level fibonacci(n) calls in any order, with repeats.       *)
(***************************************************************************)
MaxCalls == 3

FibInputs == {0, 1, 2, 10, 11, 47, 256, 257}

CallFibonacci(n) ==
    /\ stack = <<>>
    /\ ncalls < MaxCalls
    /\ stack' = Enter(n)
    /\ ncalls' = ncalls + 1
    /\ UNCHANGED <<seed, cache, retv, genVars, chainVars, orchVars>>

(***************************************************************************)
(* The initial state: a fresh process, nothing constructed yet.            *)
(***************************************************************************)
NoHash == -1

InitBase ==
    /\ seed = 0
    /\ cache = <<>>
    /\ stack = <<>>
    /\ retv = [n |-> -1, val |-> NoVal]
    /\ ncalls = 0
    /\ encoded = <<>>
    /\ genPos = 0
    /\ genOut = <<>>
    /\ genState = "idle"
    /\ chain = <<>>
    /\ mined = <<>>
    /\ tamperedAt = 0
    /\ out = [status |-> "none", str |-> <<>>]
    /\ verifyBegun = FALSE
    /\ pc = "idle"
    /\ calls = 0
    /\ wpos = 0
    /\ segs = <<>>
    /\ message = <<>>
    /\ rendered = <<>>
    /\ results = <<>>
    /\ exit = "running"

InitFib == InitBase

NextFib == FibStep \/ \E n \in FibInputs : CallFibonacci(n)

SpecFib == InitFib /\ [][NextFib]_vars

\* C8: every fibonacci(n) call, nested ones included, returns the
\* mathematical F(n), and every value the cache holds for key n is F(n),
\* whatever calls came before and whatever was evicted.
C8_MemoizationSound ==
    /\ retv.n >= 0 => retv.val = F(retv.n)
    /\ \A i \in 1..Len(cache) : cache[i].val = F(cache[i].key)
    /\ Cardinality({cache[i].key : i \in 1..Len(cache)}) = Len(cache)
    /\ Len(cache) <= maxsize

\* the first call filled the cache and evicted key 0; the second call,
\* fibonacci(0), missed, recomputed 0 and evicted key 1 to store it
C8_Witness ==
    /\ stack = <<>>
    /\ ncalls = 2
    /\ Len(cache) = maxsize
    /\ retv = [n |-> 0, val |-> <<0>>]
    /\ ~ CacheHas(cache, 1)

(***************************************************************************)
(* fibonacci_decode: a generator, one character per (fib_index, offset).   *)
(***************************************************************************)
\* the list with its first two pairs exchanged
HELLO_ENCODED_Swapped == <<<<11, 12>>, <<10, 17>>, <<11, 19>>, <<11, 19>>, <<11, 22>>>>

HELLO_ENCODED == <<<<10, 17>>, <<11, 12>>, <<11, 19>>, <<11, 19>>, <<11, 22>>>>

\* fibonacci(fib_index) + offset.  A value of more than one limb is at
\* least Base, and so is the sum for every offset above MaxCodePoint - Base:
\* chr() rejects it like any other value above MaxCodePoint.
CodeOf(big, offset) ==
    IF Len(big) = 1 THEN big[1] + offset ELSE MaxCodePoint + 1

\* next(): the generator resumes; the for loop takes the next pair and
\* calls fibonacci(fib_index), or ends the generator (StopIteration)
GenNext ==
    /\ genState = "running"
    /\ stack = <<>>
    /\ IF genPos = Len(encoded)
       THEN /\ genState' = "exhausted"
            /\ UNCHANGED stack
       ELSE /\ genState' = "computing"
            /\ stack' = Enter(encoded[genPos + 1][1])
    /\ UNCHANGED <<seed, cache, retv, ncalls, encoded, genPos, genOut,
                   chainVars, orchVars>>

\* a yield that replaces an out-of-range code point by the nearest valid one
GenYieldClamped ==
    /\ genState = "computing"
    /\ stack = <<>>
    /\ LET code == CodeOf(retv.val, encoded[genPos + 1][2])
           near == IF code < 0 THEN 0
                   ELSE IF code > MaxCodePoint THEN MaxCodePoint ELSE code
       IN  /\ genOut' = Append(genOut, Chr(near))
           /\ genPos' = genPos + 1
           /\ genState' = "running"
    /\ UNCHANGED <<seed, fibVars, ncalls, encoded, chainVars, orchVars>>

\* fibonacci has returned: "yield chr(fibonacci(fib_index) + offset)", or
\* the exception of chr() leaves the generator, which is then finished
GenYield ==
    /\ genState = "computing"
    /\ stack = <<>>
    /\ LET code == CodeOf(retv.val, encoded[genPos + 1][2])
       IN  IF ChrOk(code)
           THEN /\ genOut' = Append(genOut, Chr(code))
                /\ genPos' = genPos + 1
                /\ genState' = "running"
           ELSE /\ genState' = "raised"
                /\ UNCHANGED <<genOut, genPos>>
    /\ UNCHANGED <<seed, fibVars, ncalls, encoded, chainVars, orchVars>>

(***************************************************************************)
(* Harness: fibonacci_decode(encoded), driven to its end by next() calls,  *)
(* for every list of at most MaxPairs pairs, and for HELLO_ENCODED.        *)
(***************************************************************************)
MaxPairs == 3

PairSet ==
    {<<10, 17>>, <<11, 12>>, <<1, -1>>, <<0, -1>>,
     <<30, 282071>>, <<30, 282072>>, <<47, 0>>}

RECURSIVE SeqsUpTo(_, _)
SeqsUpTo(S, n) ==
    IF n = 0 THEN {<<>>}
    ELSE LET shorter == SeqsUpTo(S, n - 1)
         IN  shorter \cup {Append(s, x) : s \in shorter, x \in S}

DecodeInputs == SeqsUpTo(PairSet, MaxPairs) \cup {HELLO_ENCODED}

InitDecode ==
    /\ seed = 0
    /\ cache = <<>>
    /\ stack = <<>>
    /\ retv = [n |-> -1, val |-> NoVal]
    /\ ncalls = 0
    /\ encoded \in DecodeInputs
    /\ genPos = 0
    /\ genOut = <<>>
    /\ genState = "running"
    /\ chain = <<>>
    /\ mined = <<>>
    /\ tamperedAt = 0
    /\ out = [status |-> "none", str |-> <<>>]
    /\ verifyBegun = FALSE
    /\ pc = "idle"
    /\ calls = 0
    /\ wpos = 0
    /\ segs = <<>>
    /\ message = <<>>
    /\ rendered = <<>>
    /\ results = <<>>
    /\ exit = "running"

NextDecode == GenNext \/ FibStep \/ GenYield

SpecDecode == InitDecode /\ [][NextDecode]_vars

\* the code point the k-th pair stands for: F(fib_index) + offset
Expected(k) == CodeOf(F(encoded[k][1]), encoded[k][2])

InRange(n) == n >= 0 /\ n <= MaxCodePoint

AllInRange == \A k \in 1..Len(encoded) : InRange(Expected(k))

\* C7: fibonacci_decode preserves length and order: the k-th character
\* yielded has code point F(index_k) + offset_k; when every sum is a valid
\* code point the generator never raises and ends after exactly one
\* character per pair; HELLO_ENCODED yields 72,101,108,108,111 ("Hello").
C7_DecodeInOrder ==
    /\ \A k \in 1..Len(genOut) : genOut[k] = <<Expected(k)>>
    /\ Len(genOut) = genPos
    /\ AllInRange => genState # "raised"
    /\ (AllInRange /\ genState = "exhausted") => Len(genOut) = Len(encoded)
    /\ (encoded = HELLO_ENCODED /\ genState = "exhausted")
          => Join(genOut) = <<72, 101, 108, 108, 111>>

\* the generator has decoded all of HELLO_ENCODED
C7_Witness ==
    /\ encoded = HELLO_ENCODED
    /\ genState = "exhausted"
    /\ Len(genOut) = 5

\* the first pair whose sum is no valid code point (0 when there is none)
FirstBad ==
    IF AllInRange THEN 0
    ELSE CHOOSE k \in 1..Len(encoded) :
            /\ ~ InRange(Expected(k))
            /\ \A j \in 1..(k - 1) : InRange(Expected(j))

\* C9: when pair k is the first whose sum is out of range, the generator
\* yields exactly the characters of the pairs before k and then raises; it
\* never yields a character for pair k or a later one, and never ends
\* normally (no clamping, no skipping).
C9_OutOfRangeFails ==
    /\ FirstBad > 0 => /\ Len(genOut) < FirstBad
                       /\ genState # "exhausted"
    /\ genState = "raised" => /\ FirstBad > 0
                              /\ Len(genOut) = FirstBad - 1
                              /\ \A k \in 1..Len(genOut) : genOut[k] = <<Expected(k)>>

\* the generator raised at the second of three pairs, after one character
C9_Witness ==
    /\ genState = "raised"
    /\ Len(encoded) = 3
    /\ Len(genOut) = 1
    /\ FirstBad = 2

(***************************************************************************)
(* CharBlock and CharChain: the hash-linked character ledger.              *)
(*                                                                         *)
(* The built-in hash is a deterministic function within one process; the   *)
(* hash of a str is salted per process.  It is modelled as a salted        *)
(* polynomial mix into a space of HashSpace values, in which distinct      *)
(* tuples may collide, as they may in the 64-bit space of the built-in.    *)
(***************************************************************************)
HashSpace == 2^16

\* hash(data) of a one-character str
StrHash(data) == (data[1] * 31 + seed * 7919 + 11) % HashSpace

\* hash((index, data, prev_hash))
TupleHash(index, data, prev) ==
    (((index * 31 + StrHash(data)) * 31 + prev) * 31 + 17) % HashSpace

\* CharBlock(index, data, prev_hash): no hash computed yet
CharBlock(index, data, prev) ==
    [index |-> index, data |-> data, prev_hash |-> prev, hash |-> NoHash]

\* the cached_property CharBlock.hash: computed at the first read, then
\* served from the instance, whatever the fields have become
BlockHash(b) ==
    IF b.hash # NoHash THEN b.hash
    ELSE TupleHash(b.index, b.data, b.prev_hash)

\* the block after its hash was read
HashRead(b) == [b EXCEPT !.hash = BlockHash(b)]

\* mine() that numbers the blocks from 1
MineOnFromOne(ch, char) ==
    IF ch = <<>> THEN <<CharBlock(1, char, 0)>>
    ELSE Append([ch EXCEPT ![Len(ch)] = HashRead(@)],
                CharBlock(Len(ch) + 1, char, BlockHash(ch[Len(ch)])))

\* mine() that links every block to 0
MineOnUnlinked(ch, char) ==
    IF ch = <<>> THEN <<CharBlock(0, char, 0)>>
    ELSE Append([ch EXCEPT ![Len(ch)] = HashRead(@)],
                CharBlock(Len(ch), char, 0))

\* CharChain.mine(char): the chain after the call
MineOn(ch, char) ==
    IF ch = <<>> THEN <<CharBlock(0, char, 0)>>
    ELSE Append([ch EXCEPT ![Len(ch)] = HashRead(@)],
                CharBlock(Len(ch), char, BlockHash(ch[Len(ch)])))

\* CharChain.verify_and_extract from list position i on, acc the data
\* collected so far: [status, str, chain]
RECURSIVE VerifyFrom(_, _, _)
VerifyFrom(ch, i, acc) ==
    IF i > Len(ch) THEN [status |-> "ok", str |-> Join(acc), chain |-> ch]
    ELSE IF i = 1 THEN VerifyFrom(ch, 2, Append(acc, ch[1].data))
    ELSE LET read == [ch EXCEPT ![i - 1] = HashRead(@)]
         IN  IF ch[i].prev_hash = BlockHash(ch[i - 1])
             THEN VerifyFrom(read, i + 1, Append(acc, ch[i].data))
             ELSE [status |-> "error", str |-> <<>>, chain |-> read]

verify_and_extract(ch) == VerifyFrom(ch, 1, <<>>)

(***************************************************************************)
(* Harness: a fresh CharChain, mine() calls, at most one overwrite of a    *)
(* stored character, then verify_and_extract.                              *)
(***************************************************************************)
MaxChain == 3

MaxSeed == 1

WORLD_CHARS == <<87, 111, 114, 108, 100>>

LedgerChars == {WORLD_CHARS[i] : i \in 1..Len(WORLD_CHARS)}

\* the characters of "World", as mine() receives them
WorldStrs == [i \in 1..Len(WORLD_CHARS) |-> Chr(WORLD_CHARS[i])]

IsPrefix(s, t) == Len(s) <= Len(t) /\ s = SubSeq(t, 1, Len(s))

Mine(c) ==
    /\ out.status = "none"
    /\ Len(chain) < MaxChain \/ IsPrefix(Append(mined, Chr(c)), WorldStrs)
    /\ chain' = MineOn(chain, Chr(c))
    /\ mined' = Append(mined, Chr(c))
    /\ UNCHANGED <<seed, fibVars, ncalls, genVars, tamperedAt, out, verifyBegun,
                   orchVars>>

\* the test harness assigns block.data of the block at list position i
Tamper(i, c) ==
    /\ out.status = "none"
    /\ tamperedAt = 0
    /\ chain[i].data # Chr(c)
    /\ chain' = [chain EXCEPT ![i].data = Chr(c)]
    /\ tamperedAt' = i
    /\ UNCHANGED <<seed, fibVars, ncalls, genVars, mined, out, verifyBegun,
                   orchVars>>

Verify ==
    /\ out.status = "none"
    /\ LET r == verify_and_extract(chain)
       IN  /\ chain' = r.chain
           /\ out' = [status |-> r.status, str |-> r.str]
    /\ verifyBegun' = TRUE
    /\ UNCHANGED <<seed, fibVars, ncalls, genVars, mined, tamperedAt, orchVars>>

InitChain ==
    /\ seed \in 0..MaxSeed
    /\ cache = <<>>
    /\ stack = <<>>
    /\ retv = [n |-> -1, val |-> NoVal]
    /\ ncalls = 0
    /\ encoded = <<>>
    /\ genPos = 0
    /\ genOut = <<>>
    /\ genState = "idle"
    /\ chain = <<>>
    /\ mined = <<>>
    /\ tamperedAt = 0
    /\ out = [status |-> "none", str |-> <<>>]
    /\ verifyBegun = FALSE
    /\ pc = "idle"
    /\ calls = 0
    /\ wpos = 0
    /\ segs = <<>>
    /\ message = <<>>
    /\ rendered = <<>>
    /\ results = <<>>
    /\ exit = "running"

NextChain == Verify \/ \E c \in LedgerChars : Mine(c)

SpecChain == InitChain /\ [][NextChain]_vars

NextTamper ==
    \/ Verify
    \/ \E c \in LedgerChars : Mine(c)
    \/ \E i \in 1..Len(chain), c \in LedgerChars : Tamper(i, c)

SpecTamper == InitChain /\ [][NextTamper]_vars

\* C3: once the stored character of one entry was changed after the
\* appends, verify_and_extract fails with an integrity error.
C3_TamperDetected ==
    (tamperedAt > 0 /\ out.status # "none") => out.status = "error"

\* C4: for characters appended to a fresh chain and not modified,
\* verify_and_extract raises nothing and returns exactly those characters
\* in append order: "" for no appends, "World" for 87,111,114,108,100.
C4_RoundTrip ==
    out.status # "none" =>
        /\ out.status = "ok"
        /\ out.str = Join(mined)
        /\ Len(out.str) = Len(mined)
        /\ mined = WorldStrs => out.str = <<87, 111, 114, 108, 100>>

\* "World" was appended and extracted
C4_Witness ==
    /\ out.status = "ok"
    /\ Len(chain) = 5
    /\ out.str = <<87, 111, 114, 108, 100>>

\* the link of a block: a function of its (index, data, prev_hash) alone
Link(b) == TupleHash(b.index, b.data, b.prev_hash)

Fields(b) == <<b.index, b.data, b.prev_hash>>

ChainLinked ==
    /\ \A i \in 1..Len(chain) : chain[i].index = i - 1
    /\ chain # <<>> => chain[1].prev_hash = 0
    /\ \A i \in 2..Len(chain) : chain[i].prev_hash = Link(chain[i - 1])
    /\ \A i \in 1..Len(chain) : chain[i].data = mined[i]

AppendOnly ==
    /\ Len(chain') \in {Len(chain), Len(chain) + 1}
    /\ \A i \in 1..Len(chain) : Fields(chain'[i]) = Fields(chain[i])

\* C10: after any sequence of mine() calls on a fresh chain the block at
\* list position i has index i (counted from 0), the first block has
\* prev_hash 0, every later block stores the link of its predecessor, and
\* a step appends at most one block and leaves the earlier blocks' fields
\* unchanged.
C10_ChainLinkInvariant == [](ChainLinked) /\ [][AppendOnly]_vars

\* three blocks were mined
C10_Witness ==
    /\ Len(chain) = 3
    /\ out.status = "none"
    /\ chain[3].prev_hash = Link(chain[2])

(***************************************************************************)
(* Church numerals, ASCIICharacter, CharacterPipeline, CharacterEmitter.   *)
(***************************************************************************)
\* church(n): SUCC applied n times to ZERO
church(n) == [i \in 1..n |-> "SUCC"]

\* TO_INT: the numeral applies "x + 1" once per SUCC, starting from 0
RECURSIVE TO_INT(_)
TO_INT(numeral) == IF numeral = <<>> THEN 0 ELSE TO_INT(Tail(numeral)) + 1

church_decode_char(n) == Chr(TO_INT(church(n)))

ASCIICharacter(codepoint) == [codepoint |-> codepoint]

\* ASCIICharacter.glyph and __str__
Glyph(a) == Chr(a.codepoint)

CharacterPipeline(value) == [value |-> value]

\* .map(church_decode_char)
MapChurchDecode(p) == CharacterPipeline(church_decode_char(p.value))

\* .map(str)
MapStr(p) == CharacterPipeline(Glyph(p.value))

Unwrap(p) == p.value

\* CharacterEmitter.emit: the only observer is SilentWitness, whose
\* on_event does nothing; the character is returned unchanged
Emit(char) == char

(***************************************************************************)
(* HelloWorldOrchestrator and the __main__ block.                          *)
(***************************************************************************)
MaxPerforms == 3

SPACE_CODEPOINT == 32

EXCLAIM == ASCIICharacter(33)

\* "Hello World!"
HelloWorld == <<72, 101, 108, 108, 111, 32, 87, 111, 114, 108, 100, 33>>

\* HelloWorldOrchestrator(): the emitter and an empty chain
InitOrch ==
    /\ seed \in 0..MaxSeed
    /\ cache = <<>>
    /\ stack = <<>>
    /\ retv = [n |-> -1, val |-> NoVal]
    /\ ncalls = 0
    /\ encoded = <<>>
    /\ genPos = 0
    /\ genOut = <<>>
    /\ genState = "idle"
    /\ chain = <<>>
    /\ mined = <<>>
    /\ tamperedAt = 0
    /\ out = [status |-> "none", str |-> <<>>]
    /\ verifyBegun = FALSE
    /\ pc = "idle"
    /\ calls = 0
    /\ wpos = 0
    /\ segs = <<>>
    /\ message = <<>>
    /\ rendered = <<>>
    /\ results = <<>>
    /\ exit = "running"

\* perform() is called: the banner is printed, result_chars is empty and
\* the first renderer creates the generator over HELLO_ENCODED
PerformStart ==
    /\ pc \in {"idle", "returned"}
    /\ calls < MaxPerforms
    /\ calls' = calls + 1
    /\ segs' = <<>>
    /\ message' = <<>>
    /\ encoded' = HELLO_ENCODED
    /\ genPos' = 0
    /\ genOut' = <<>>
    /\ genState' = "running"
    /\ pc' = "hello"
    /\ UNCHANGED <<seed, fibVars, ncalls, chainVars, wpos, rendered, results, exit>>

\* _render_hello: list() has drained the generator; the characters are
\* emitted and joined
RenderHello ==
    /\ pc = "hello"
    /\ genState \in {"exhausted", "raised"}
    /\ IF genState = "exhausted"
       THEN /\ segs' = Append(segs, Join([k \in 1..Len(genOut) |-> Emit(genOut[k])]))
            /\ pc' = "space"
       ELSE /\ pc' = "crashed"
            /\ UNCHANGED segs
    /\ genState' = "idle"
    /\ UNCHANGED <<seed, fibVars, ncalls, encoded, genPos, genOut, chainVars,
                   calls, wpos, message, rendered, results, exit>>

\* _render_space
RenderSpace ==
    /\ pc = "space"
    /\ IF ChrOk(TO_INT(church(SPACE_CODEPOINT)))
       THEN /\ segs' = Append(segs,
                   Unwrap(MapChurchDecode(CharacterPipeline(SPACE_CODEPOINT))))
            /\ pc' = "world"
       ELSE /\ pc' = "crashed"
            /\ UNCHANGED segs
    /\ wpos' = 0
    /\ UNCHANGED <<seed, fibVars, ncalls, genVars, chainVars, calls, message,
                   rendered, results, exit>>

\* _render_world, one turn of "for cp in WORLD_CHARS: self.chain.mine(chr(cp))"
MineWorld ==
    /\ pc = "world"
    /\ wpos < Len(WORLD_CHARS)
    /\ chain' = MineOn(chain, Chr(WORLD_CHARS[wpos + 1]))
    /\ mined' = Append(mined, Chr(WORLD_CHARS[wpos + 1]))
    /\ wpos' = wpos + 1
    /\ UNCHANGED <<seed, fibVars, ncalls, genVars, tamperedAt, out, verifyBegun,
                   pc, calls, segs, message, rendered, results, exit>>

\* _render_world: "return self.chain.verify_and_extract()"
VerifyWorld ==
    /\ pc = "world"
    /\ wpos = Len(WORLD_CHARS)
    /\ LET r == verify_and_extract(chain)
       IN  /\ chain' = r.chain
           /\ out' = [status |-> r.status, str |-> r.str]
           /\ IF r.status = "ok"
              THEN /\ segs' = Append(segs, r.str)
                   /\ pc' = "exclaim"
              ELSE /\ pc' = "crashed"
                   /\ UNCHANGED segs
    /\ verifyBegun' = TRUE
    /\ UNCHANGED <<seed, fibVars, ncalls, genVars, mined, tamperedAt, calls, wpos,
                   message, rendered, results, exit>>

\* _render_exclaim
RenderExclaim ==
    /\ pc = "exclaim"
    /\ segs' = Append(segs, Unwrap(MapStr(CharacterPipeline(EXCLAIM))))
    /\ pc' = "join"
    /\ UNCHANGED <<seed, fibVars, ncalls, genVars, chainVars, calls, wpos, message,
                   rendered, results, exit>>

\* message = "".join(result_chars)
Concat ==
    /\ pc = "join"
    /\ message' = Join(segs)
    /\ pc' = "reveal"
    /\ UNCHANGED <<seed, fibVars, ncalls, genVars, chainVars, calls, wpos, segs,
                   rendered, results, exit>>

\* the final reveal: the message is printed in its box
Present ==
    /\ pc = "reveal"
    /\ rendered' = Append(rendered, message)
    /\ pc' = "stats"
    /\ UNCHANGED <<seed, fibVars, ncalls, genVars, chainVars, calls, wpos, segs,
                   message, results, exit>>

\* the statistics are printed and perform() returns the message
Return ==
    /\ pc = "stats"
    /\ results' = Append(results, message)
    /\ pc' = "returned"
    /\ UNCHANGED <<seed, fibVars, ncalls, genVars, chainVars, calls, wpos, segs,
                   message, rendered, exit>>

\* an assertion that lets every result pass
MainAssertLax ==
    /\ pc = "returned"
    /\ exit' = "ok"
    /\ pc' = "done"
    /\ UNCHANGED <<seed, fibVars, ncalls, genVars, chainVars, calls, wpos, segs,
                   message, rendered, results>>

\* __main__: assert result == "Hello World!"
MainAssert ==
    /\ pc = "returned"
    /\ exit' = IF results[Len(results)] = HelloWorld THEN "ok" ELSE "abnormal"
    /\ pc' = "done"
    /\ UNCHANGED <<seed, fibVars, ncalls, genVars, chainVars, calls, wpos, segs,
                   message, rendered, results>>

Next ==
    \/ PerformStart
    \/ GenNext
    \/ FibStep
    \/ GenYield
    \/ RenderHello
    \/ RenderSpace
    \/ MineWorld
    \/ VerifyWorld
    \/ RenderExclaim
    \/ Concat
    \/ Present
    \/ Return
    \/ MainAssert

Spec == InitOrch /\ [][Next]_vars

\* the four fragments, in rendering order: "Hello", " ", "World", "!"
Fragments ==
    <<<<72, 101, 108, 108, 111>>, <<32>>, <<87, 111, 114, 108, 100>>, <<33>>>>

\* C1: the first perform() on a fresh orchestrator runs the renderers in
\* the order Fibonacci decoder, Church numeral, ledger, ASCII pipeline,
\* collects their fragments in that order and returns their concatenation,
\* the 12 characters of "Hello World!".
C1_FirstPerform ==
    calls = 1 =>
        /\ IsPrefix(segs, Fragments)
        /\ pc = "hello" => Len(segs) = 0
        /\ pc = "space" => Len(segs) = 1
        /\ pc = "world" => Len(segs) = 2
        /\ pc = "exclaim" => Len(segs) = 3
        /\ pc \in {"join", "reveal", "stats", "returned", "done"} => segs = Fragments
        /\ pc \in {"reveal", "stats", "returned", "done"} => message = HelloWorld
        /\ pc \in {"returned", "done"} =>
              /\ results = <<HelloWorld>>
              /\ Len(results[1]) = 12
        /\ pc # "crashed"

\* the first perform() has returned
C1_Witness ==
    /\ calls = 1
    /\ pc = "returned"
    /\ results = <<HelloWorld>>

\* C2: every perform() call on one orchestrator returns what the first
\* call returned.
C2_Idempotent == \A k \in 1..Len(results) : results[k] = results[1]

\* C5 as claimed: nothing is rendered before the comparison with
\* "Hello World!" has been made, and only "Hello World!" is ever rendered.
C5_AssertBeforePresent ==
    /\ rendered # <<>> => exit # "running"
    /\ \A k \in 1..Len(rendered) : rendered[k] = HelloWorld

\* C5 as amended: the comparison is made after perform() has concatenated,
\* rendered and returned the message; the run ends normally exactly when
\* the returned message is "Hello World!", and abnormally otherwise, the
\* message having been rendered already in both cases.
C5_AssertAfterPresent ==
    exit # "running" =>
        /\ pc = "done"
        /\ results # <<>>
        /\ Len(rendered) = Len(results)
        /\ rendered[Len(rendered)] = results[Len(results)]
        /\ results[Len(results)] = Join(segs)
        /\ exit = "ok" <=> results[Len(results)] = HelloWorld

\* the run of the script: one perform(), the message rendered, the
\* assertion passed
C5_Witness ==
    /\ exit = "ok"
    /\ calls = 1
    /\ rendered = <<HelloWorld>>

\* C6: once verify_and_extract has begun on a chain, no block is appended
\* to that chain.
C6_NoMineAfterVerify == [][verifyBegun => Len(chain') = Len(chain)]_vars

=============================================================================
